---- MODULE Spec2Model ----
(***************************************************************************)
(* Model of buildBundleWithConfig                                          *)
(* (packages/cli-plugin-metro/src/commands/bundle/buildBundle.ts).         *)
(*                                                                         *)
(* An invocation is an async function: it runs synchronously up to its     *)
(* first await and then one continuation per awaited promise.  Each action *)
(* below is one such run-to-completion block.  The collaborators           *)
(* (output.build, fs.mkdirSync, output.save, server.getAssets, saveAssets, *)
(* server.end, new Server) are external: each either succeeds or raises,   *)
(* chosen nondeterministically.                                            *)
(***************************************************************************)
EXTENDS Integers, Sequences, FiniteSets, TLC

VARIABLES
    pc,            \* per invocation: where the async function is suspended
    args,          \* per invocation: the CommandLineArgs it was called with
    requestOpts,   \* per invocation: const requestOpts (line 82)
    server,        \* per invocation: const server (line 90), 0 = not created
    bundle,        \* per invocation: const bundle (line 93)
    outputAssets,  \* per invocation: const outputAssets (line 102)
    outcome,       \* per invocation: state of the promise the caller holds
    trace,         \* per invocation: the calls it made, in order
    mode,          \* process.env.NODE_ENV
    sessions,      \* every Server constructed so far, by identity
    dirs,          \* directories that exist
    files          \* files that exist

vars == <<pc, args, requestOpts, server, bundle, outputAssets, outcome, trace,
          mode, sessions, dirs, files>>

----------------------------------------------------------------------------
(* Bounds *)

MaxPathLen == 3
NumInvocations == 2

----------------------------------------------------------------------------
(* JavaScript values *)

Undefined == <<"undefined">>
Null == <<"null">>
Bool(b) == <<"boolean", b>>
Str(s) == <<"string", s>>

Max(S) == CHOOSE x \in S : \A y \in S : y <= x

\* Paths are strings, modelled as sequences of characters.
Chars == {"/", "m"}
PathsUpTo(n) == UNION {[1..k -> Chars] : k \in 0..n}
Paths == PathsUpTo(MaxPathLen)

\* path.basename(p) of Node's posix path module: trailing separators are
\* dropped, then everything up to the last separator.
Basename(s) ==
    LET nonSlash == {i \in 1..Len(s) : s[i] # "/"}
    IN  IF nonSlash = {} THEN <<>>
        ELSE LET e == Max(nonSlash)
                 before == {i \in 1..e : s[i] = "/"}
                 b == IF before = {} THEN 1 ELSE Max(before) + 1
             IN  SubSeq(s, b, e)

\* path.dirname(p) of Node's posix path module.
Dirname(s) ==
    IF Len(s) = 0 THEN <<".">>
    ELSE LET hasRoot == s[1] = "/"
             top == IF hasRoot THEN <<"/">> ELSE <<".">>
             nonSlash == {i \in 2..Len(s) : s[i] # "/"}
         IN  IF nonSlash = {} THEN top
             ELSE LET cand == {i \in 2..Max(nonSlash) : s[i] = "/"}
                  IN  IF cand = {} THEN top
                      ELSE IF hasRoot /\ Max(cand) = 2 THEN <<"/", "/">>
                      ELSE SubSeq(s, 1, Max(cand) - 1)

RECURSIVE WithAncestors(_)
WithAncestors(d) ==
    IF Dirname(d) = d THEN {d} ELSE {d} \cup WithAncestors(Dirname(d))

----------------------------------------------------------------------------
(* Inputs *)

Invocations == 1..NumInvocations

\* config.resolver.platforms of the resolved configuration.
ConfigPlatforms == <<"ios", "android">>

RequestedPlatforms == {"ios", "android", "windows", ""}
BundleOutputs == {<<"m">>, <<"/", "m">>, <<"m", "/", "m">>}
InitialModes == {Undefined, Str("test")}

\* The CommandLineArgs fields buildBundleWithConfig reads.
CommandArgs ==
    [platform : RequestedPlatforms,
     entryFile : {"index.js"},
     dev : BOOLEAN,
     minify : {Undefined, Bool(TRUE), Bool(FALSE)},
     sourcemapOutput : {Undefined} \cup {Str(q) : q \in Paths},
     sourcemapUseAbsolutePath : BOOLEAN,
     bundleOutput : BundleOutputs,
     assetsDest : {Str("assets")},
     assetCatalogDest : {Undefined},
     unstableTransformProfile : {Undefined}]

\* The arguments used when several invocations run concurrently.
ConcurrentArgs ==
    {a \in CommandArgs :
        /\ a.platform \in {"ios", "windows"}
        /\ a.minify = Undefined
        /\ a.sourcemapOutput = Undefined
        /\ ~a.sourcemapUseAbsolutePath
        /\ a.bundleOutput = <<"m", "/", "m">>}

\* Locals of an invocation that has not assigned them yet.
NoArgs == [platform |-> "none"]
NoOpts == [entryFile |-> "none"]
NoBundle == [builtBy |-> 0]

----------------------------------------------------------------------------
(* Values *)

Error(msg) == [name |-> "Error", message |-> msg]

BundlingFailed == Error("Bundling failed")
ServerError == Error("Server constructor failed")
BuildError == Error("build failed")
MkdirError == Error("EACCES")
SaveError == Error("save failed")
GetAssetsError == Error("getAssets failed")
SaveAssetsError == Error("saveAssets failed")
EndError == Error("end failed")

\* Promise states of the async function's result.
NotCalled == <<"not called">>
Pending == <<"pending">>
Fulfilled(v) == <<"fulfilled", v>>
Rejected(e) == <<"rejected", e>>

\* Completion records of the try block.
Return(v) == <<"return", v>>
Throw(e) == <<"throw", e>>

AssetLists == {<<>>, <<"asset1">>}
SaveAssetsResults == {Undefined, Str("saved")}

Ev(op, data) == [op |-> op, data |-> data]

\* Server.DEFAULT_BUNDLE_OPTIONS of the engine.
DEFAULT_BUNDLE_OPTIONS ==
    [dev |-> TRUE,
     hot |-> FALSE,
     minify |-> FALSE,
     unstable_transformProfile |-> Str("default"),
     excludeSource |-> FALSE,
     inlineSourceMap |-> FALSE,
     runModule |-> TRUE,
     sourceMapUrl |-> Null,
     sourceUrl |-> Null]

\* Object spread {...a, ...b}: own properties of b win, also undefined ones.
Spread(a, b) ==
    [k \in DOMAIN a \cup DOMAIN b |-> IF k \in DOMAIN b THEN b[k] ELSE a[k]]

\* Array.prototype.indexOf, zero-based, -1 when absent.
IndexOf(xs, x) ==
    LET hits == {i \in 1..Len(xs) : xs[i] = x}
    IN  IF hits = {} THEN -1 ELSE (CHOOSE i \in hits : \A j \in hits : i <= j) - 1

----------------------------------------------------------------------------
(* Pure parts of buildBundleWithConfig *)

\* Faulty variant: the index tested for truthiness instead of against -1.
PlatformValidTruthy(platform) == IndexOf(ConfigPlatforms, platform) # 0

\* line 55
PlatformValid(platform) == IndexOf(ConfigPlatforms, platform) # -1

\* Faulty variant: the platform name is left out of the diagnostic.
InvalidPlatformMessageNoName(platform) == <<"Invalid platform ", "selected.">>

\* lines 56-60: the error diagnostic, as the parts of the template literal
InvalidPlatformMessage(platform) ==
    <<"Invalid platform ">>
    \o (IF platform # "" THEN <<"\"", platform, "\" ">> ELSE <<>>)
    \o <<"selected.">>

\* Array.prototype.join over quoted names, lines 63-66
RECURSIVE JoinQuoted(_)
JoinQuoted(xs) ==
    IF xs = <<>> THEN <<>>
    ELSE <<"\"", Head(xs), "\"">>
         \o (IF Len(xs) > 1 THEN <<", ">> ELSE <<>>)
         \o JoinQuoted(Tail(xs))

\* lines 62-68: the info diagnostic
AvailablePlatformsMessage ==
    <<"Available platforms are: ">>
    \o JoinQuoted(ConfigPlatforms)
    \o <<". If you are trying to bundle for an out-of-tree platform, it may not be installed.">>

\* Faulty variant: the two branches of the conditional exchanged.
NodeEnvInverted(dev) == IF dev THEN Str("production") ELSE Str("development")

\* line 75
NodeEnv(dev) == IF dev THEN Str("development") ELSE Str("production")

\* JavaScript truthiness of string | undefined
Truthy(v) == v # Undefined /\ v[2] # <<>>

\* Faulty variant: sourcemapUseAbsolutePath is not consulted.
SourceMapUrlAlwaysBasename(a) ==
    IF Truthy(a.sourcemapOutput)
    THEN Str(Basename(a.sourcemapOutput[2]))
    ELSE a.sourcemapOutput

\* lines 77-80
SourceMapUrl(a) ==
    IF Truthy(a.sourcemapOutput) /\ ~a.sourcemapUseAbsolutePath
    THEN Str(Basename(a.sourcemapOutput[2]))
    ELSE a.sourcemapOutput

\* Faulty variant: an explicit minify is not consulted.
MinifyFromDev(a) == ~a.dev

\* line 86
Minify(a) == IF a.minify # Undefined THEN a.minify[2] ELSE ~a.dev

\* lines 82-89
RequestOpts(a) ==
    [entryFile |-> a.entryFile,
     sourceMapUrl |-> SourceMapUrl(a),
     dev |-> a.dev,
     minify |-> Minify(a),
     platform |-> a.platform,
     unstable_transformProfile |-> a.unstableTransformProfile]

\* Faulty variant: the defaults spread after the request options.
GetAssetsOptionsDefaultsLast(opts) ==
    Spread(Spread(opts, DEFAULT_BUNDLE_OPTIONS), [bundleType |-> "todo"])

\* lines 102-106
GetAssetsOptions(opts) ==
    Spread(Spread(DEFAULT_BUNDLE_OPTIONS, opts), [bundleType |-> "todo"])

----------------------------------------------------------------------------
(* State *)

Init ==
    /\ pc = [p \in Invocations |-> "idle"]
    /\ args = [p \in Invocations |-> NoArgs]
    /\ requestOpts = [p \in Invocations |-> NoOpts]
    /\ server = [p \in Invocations |-> 0]
    /\ bundle = [p \in Invocations |-> NoBundle]
    /\ outputAssets = [p \in Invocations |-> Undefined]
    /\ outcome = [p \in Invocations |-> NotCalled]
    /\ trace = [p \in Invocations |-> <<>>]
    /\ mode \in InitialModes
    /\ sessions = <<>>
    /\ dirs = {<<"/">>, <<".">>}
    /\ files = {}

\* new Server(config), line 90: a fresh session over the shared config.
NewSession(p) == [config |-> ConfigPlatforms, openedBy |-> p, endCalls |-> 0]

\* The events of a call that raised.
Raised(by, e) == Ev("throw", [by |-> by, error |-> e])

\* Faulty variant: a catch clause that rethrows the generic error.
SettleTranslated(completion, endOk) ==
    IF ~endOk THEN Rejected(EndError)
    ELSE IF completion[1] = "return" THEN Fulfilled(completion[2])
    ELSE Rejected(BundlingFailed)

\* Faulty variant: an error of the try block survives a raising server.end().
SettleKeepsOriginal(completion, endOk) ==
    IF completion[1] = "throw" THEN Rejected(completion[2])
    ELSE IF ~endOk THEN Rejected(EndError)
    ELSE Fulfilled(completion[2])

\* What the caller's promise settles to: the completion of the try block,
\* unless server.end() raised in the finally block (lines 115-117).
Settle(completion, endOk) ==
    IF ~endOk THEN Rejected(EndError)
    ELSE IF completion[1] = "return" THEN Fulfilled(completion[2])
    ELSE Rejected(completion[2])

\* Faulty variant: no try/finally, server.end() only after the last step succeeded.
FinallyOnlyOnSuccess(p, completion, tr) ==
    \E endOk \in BOOLEAN :
        LET ends == completion[1] = "return"
            res == Settle(completion, endOk \/ ~ends)
        IN  /\ sessions' = [sessions EXCEPT ![server[p]].endCalls =
                                IF ends THEN @ + 1 ELSE @]
            /\ outcome' = [outcome EXCEPT ![p] = res]
            /\ trace' = [trace EXCEPT ![p] =
                            tr \o (IF ends THEN <<Ev("server.end", server[p])>> ELSE <<>>)
                               \o (IF ends /\ ~endOk
                                   THEN <<Raised("server.end", EndError)>> ELSE <<>>)
                               \o <<Ev("settle", res)>>]
            /\ pc' = [pc EXCEPT ![p] = "done"]
            /\ UNCHANGED files

\* Faulty variant: server.end() at the end of the try block and again in finally.
FinallyEndsTwice(p, completion, tr) ==
    \E endOk \in BOOLEAN :
        LET twice == completion[1] = "return"
        IN  /\ sessions' = [sessions EXCEPT ![server[p]].endCalls =
                                IF twice THEN @ + 2 ELSE @ + 1]
            /\ outcome' = [outcome EXCEPT ![p] = Settle(completion, endOk)]
            /\ trace' = [trace EXCEPT ![p] =
                            tr \o (IF twice THEN <<Ev("server.end", server[p])>> ELSE <<>>)
                               \o <<Ev("server.end", server[p])>>
                               \o (IF endOk THEN <<>>
                                   ELSE <<Raised("server.end", EndError)>>)
                               \o <<Ev("settle", Settle(completion, endOk))>>]
            /\ pc' = [pc EXCEPT ![p] = "done"]
            /\ UNCHANGED files

\* Faulty variant: the session closed is the first one constructed in the
\* process, as if the session were kept in a variable shared by the calls.
FinallyEndsFirstSession(p, completion, tr) ==
    \E endOk \in BOOLEAN :
        /\ sessions' = [sessions EXCEPT ![1].endCalls = @ + 1]
        /\ outcome' = [outcome EXCEPT ![p] = Settle(completion, endOk)]
        /\ trace' = [trace EXCEPT ![p] =
                        tr \o <<Ev("server.end", 1)>>
                           \o (IF endOk THEN <<>> ELSE <<Raised("server.end", EndError)>>)
                           \o <<Ev("settle", Settle(completion, endOk))>>]
        /\ pc' = [pc EXCEPT ![p] = "done"]
        /\ UNCHANGED files

\* Faulty variant: a failed run removes the bundle file it wrote.
FinallyWithCleanup(p, completion, tr) ==
    \E endOk \in BOOLEAN :
        /\ sessions' = [sessions EXCEPT ![server[p]].endCalls = @ + 1]
        /\ outcome' = [outcome EXCEPT ![p] = Settle(completion, endOk)]
        /\ trace' = [trace EXCEPT ![p] =
                        tr \o <<Ev("server.end", server[p])>>
                           \o (IF endOk THEN <<>> ELSE <<Raised("server.end", EndError)>>)
                           \o <<Ev("settle", Settle(completion, endOk))>>]
        /\ pc' = [pc EXCEPT ![p] = "done"]
        /\ files' = IF completion[1] = "throw"
                     THEN files \ {args[p].bundleOutput} ELSE files

\* The finally block, lines 115-117, entered with the try block's completion
\* after the events tr; then the promise settles.  Nothing written so far
\* is removed.
Finally(p, completion, tr) ==
    \E endOk \in BOOLEAN :
        /\ sessions' = [sessions EXCEPT ![server[p]].endCalls = @ + 1]
        /\ outcome' = [outcome EXCEPT ![p] = Settle(completion, endOk)]
        /\ trace' = [trace EXCEPT ![p] =
                        tr \o <<Ev("server.end", server[p])>>
                           \o (IF endOk THEN <<>> ELSE <<Raised("server.end", EndError)>>)
                           \o <<Ev("settle", Settle(completion, endOk))>>]
        /\ pc' = [pc EXCEPT ![p] = "done"]
        /\ UNCHANGED files

\* Faulty variant: the two destinations in the wrong order.
SaveAssetsArgsSwapped(a, assets) ==
    <<assets, a.platform, a.assetCatalogDest, a.assetsDest>>

\* The arguments of the saveAssets call, lines 109-114.
SaveAssetsArgs(a, assets) ==
    <<assets, a.platform, a.assetsDest, a.assetCatalogDest>>

----------------------------------------------------------------------------
(* Actions: one per synchronous block of the async function *)

\* Faulty variant: NODE_ENV is written before the platform is validated.
RejectPlatformAfterMode(p, a) ==
    /\ mode' = NodeEnv(a.dev)
    /\ trace' = [trace EXCEPT ![p] =
                    <<Ev("validate", a.platform),
                      Ev("logger.error", InvalidPlatformMessage(a.platform)),
                      Ev("logger.info", AvailablePlatformsMessage),
                      Raised("validate", BundlingFailed),
                      Ev("settle", Rejected(BundlingFailed))>>]
    /\ outcome' = [outcome EXCEPT ![p] = Rejected(BundlingFailed)]
    /\ pc' = [pc EXCEPT ![p] = "done"]
    /\ UNCHANGED <<requestOpts, server, sessions>>

\* Lines 55-71: the platform is not supported.
RejectPlatform(p, a) ==
    /\ trace' = [trace EXCEPT ![p] =
                    <<Ev("validate", a.platform),
                      Ev("logger.error", InvalidPlatformMessage(a.platform)),
                      Ev("logger.info", AvailablePlatformsMessage),
                      Raised("validate", BundlingFailed),
                      Ev("settle", Rejected(BundlingFailed))>>]
    /\ outcome' = [outcome EXCEPT ![p] = Rejected(BundlingFailed)]
    /\ pc' = [pc EXCEPT ![p] = "done"]
    /\ UNCHANGED <<requestOpts, server, mode, sessions>>

\* Faulty variant: NODE_ENV is only written when no invocation has set it yet.
OpenAndBuildKeepsMode(p, a) ==
    /\ mode' = IF mode \in {Str("development"), Str("production")}
               THEN mode ELSE NodeEnv(a.dev)
    /\ requestOpts' = [requestOpts EXCEPT ![p] = RequestOpts(a)]
    /\ \E constructed \in BOOLEAN :
        IF constructed
        THEN /\ sessions' = Append(sessions, NewSession(p))
             /\ server' = [server EXCEPT ![p] = Len(sessions) + 1]
             /\ trace' = [trace EXCEPT ![p] =
                             <<Ev("validate", a.platform),
                               Ev("process.env.NODE_ENV", NodeEnv(a.dev)),
                               Ev("new Server", Len(sessions) + 1),
                               Ev("output.build",
                                  <<Len(sessions) + 1, RequestOpts(a)>>)>>]
             /\ outcome' = [outcome EXCEPT ![p] = Pending]
             /\ pc' = [pc EXCEPT ![p] = "awaitBuild"]
        ELSE /\ trace' = [trace EXCEPT ![p] =
                             <<Ev("validate", a.platform),
                               Ev("process.env.NODE_ENV", NodeEnv(a.dev)),
                               Raised("new Server", ServerError),
                               Ev("settle", Rejected(ServerError))>>]
             /\ outcome' = [outcome EXCEPT ![p] = Rejected(ServerError)]
             /\ pc' = [pc EXCEPT ![p] = "done"]
             /\ UNCHANGED <<server, sessions>>

\* Lines 73-93: up to the first await.
OpenAndBuild(p, a) ==
    /\ mode' = NodeEnv(a.dev)
    /\ requestOpts' = [requestOpts EXCEPT ![p] = RequestOpts(a)]
    /\ \E constructed \in BOOLEAN :
        IF constructed
        THEN /\ sessions' = Append(sessions, NewSession(p))
             /\ server' = [server EXCEPT ![p] = Len(sessions) + 1]
             /\ trace' = [trace EXCEPT ![p] =
                             <<Ev("validate", a.platform),
                               Ev("process.env.NODE_ENV", NodeEnv(a.dev)),
                               Ev("new Server", Len(sessions) + 1),
                               Ev("output.build",
                                  <<Len(sessions) + 1, RequestOpts(a)>>)>>]
             /\ outcome' = [outcome EXCEPT ![p] = Pending]
             /\ pc' = [pc EXCEPT ![p] = "awaitBuild"]
        ELSE /\ trace' = [trace EXCEPT ![p] =
                             <<Ev("validate", a.platform),
                               Ev("process.env.NODE_ENV", NodeEnv(a.dev)),
                               Raised("new Server", ServerError),
                               Ev("settle", Rejected(ServerError))>>]
             /\ outcome' = [outcome EXCEPT ![p] = Rejected(ServerError)]
             /\ pc' = [pc EXCEPT ![p] = "done"]
             /\ UNCHANGED <<server, sessions>>

\* buildBundleWithConfig(args, config, output) is called: lines 55-93.
Call(p, a) ==
    /\ pc[p] = "idle"
    /\ args' = [args EXCEPT ![p] = a]
    /\ IF PlatformValid(a.platform) THEN OpenAndBuild(p, a) ELSE RejectPlatform(p, a)
    /\ UNCHANGED <<bundle, outputAssets, dirs, files>>

\* Faulty variant: the bundle is saved without creating its directory first.
BuildResolvesNoMkdir(p) ==
    /\ pc[p] = "awaitBuild"
    /\ LET b == [builtBy |-> server[p], opts |-> requestOpts[p]]
       IN  /\ bundle' = [bundle EXCEPT ![p] = b]
           /\ trace' = [trace EXCEPT ![p] =
                           @ \o <<Ev("output.build returned", b),
                                  Ev("output.save", <<b, args[p]>>)>>]
           /\ pc' = [pc EXCEPT ![p] = "awaitSave"]
    /\ UNCHANGED <<args, requestOpts, server, outputAssets, outcome, mode,
                   sessions, dirs, files>>

\* output.build resolved: lines 93-99, up to the await of output.save.
BuildResolves(p) ==
    /\ pc[p] = "awaitBuild"
    /\ LET b == [builtBy |-> server[p], opts |-> requestOpts[p]]
           dir == Dirname(args[p].bundleOutput)
           tr == trace[p] \o <<Ev("output.build returned", b),
                               Ev("fs.mkdirSync", dir)>>
       IN  /\ bundle' = [bundle EXCEPT ![p] = b]
           /\ \E made \in BOOLEAN :
                IF made
                THEN /\ dirs' = dirs \cup WithAncestors(dir)
                     /\ trace' = [trace EXCEPT ![p] =
                                     tr \o <<Ev("fs.mkdirSync returned", dir),
                                             Ev("output.save", <<b, args[p]>>)>>]
                     /\ pc' = [pc EXCEPT ![p] = "awaitSave"]
                     /\ UNCHANGED <<outcome, sessions, files>>
                ELSE /\ Finally(p, Throw(MkdirError),
                                tr \o <<Raised("fs.mkdirSync", MkdirError)>>)
                     /\ UNCHANGED dirs
    /\ UNCHANGED <<args, requestOpts, server, outputAssets, mode>>

\* Faulty variant: a rejected output.build is attempted a second time.
BuildRejectsRetry(p) ==
    /\ pc[p] = "awaitBuild"
    /\ IF Cardinality({i \in 1..Len(trace[p]) : trace[p][i].op = "output.build"}) < 2
       THEN /\ trace' = [trace EXCEPT ![p] =
                            @ \o <<Raised("output.build", BuildError),
                                   Ev("output.build", <<server[p], requestOpts[p]>>)>>]
            /\ UNCHANGED <<pc, outcome, sessions, files>>
       ELSE Finally(p, Throw(BuildError),
                    trace[p] \o <<Raised("output.build", BuildError)>>)
    /\ UNCHANGED <<args, requestOpts, server, bundle, outputAssets, mode, dirs>>

\* output.build rejected: the finally block runs.
BuildRejects(p) ==
    /\ pc[p] = "awaitBuild"
    /\ Finally(p, Throw(BuildError),
               trace[p] \o <<Raised("output.build", BuildError)>>)
    /\ UNCHANGED <<args, requestOpts, server, bundle, outputAssets, mode, dirs>>

\* output.save resolved: lines 99-106, up to the await of server.getAssets.
SaveResolves(p) ==
    /\ pc[p] = "awaitSave"
    /\ files' = files \cup {args[p].bundleOutput}
    /\ trace' = [trace EXCEPT ![p] =
                    @ \o <<Ev("output.save returned", args[p].bundleOutput),
                           Ev("server.getAssets",
                              <<server[p], GetAssetsOptions(requestOpts[p])>>)>>]
    /\ pc' = [pc EXCEPT ![p] = "awaitGetAssets"]
    /\ UNCHANGED <<args, requestOpts, server, bundle, outputAssets, outcome,
                   mode, sessions, dirs>>

\* output.save rejected.
SaveRejects(p) ==
    /\ pc[p] = "awaitSave"
    /\ Finally(p, Throw(SaveError),
               trace[p] \o <<Raised("output.save", SaveError)>>)
    /\ UNCHANGED <<args, requestOpts, server, bundle, outputAssets, mode, dirs>>

\* Faulty variant: the session is closed as soon as saveAssets has been
\* called, while its promise is still pending.
GetAssetsResolvesNoAwait(p) ==
    /\ pc[p] = "awaitGetAssets"
    /\ \E assets \in AssetLists :
        /\ outputAssets' = [outputAssets EXCEPT ![p] = assets]
        /\ trace' = [trace EXCEPT ![p] =
                        @ \o <<Ev("server.getAssets returned", assets),
                               Ev("saveAssets", SaveAssetsArgs(args[p], assets)),
                               Ev("server.end", server[p])>>]
    /\ sessions' = [sessions EXCEPT ![server[p]].endCalls = @ + 1]
    /\ pc' = [pc EXCEPT ![p] = "awaitSaveAssets"]
    /\ UNCHANGED <<args, requestOpts, server, bundle, outcome, mode, dirs, files>>

\* server.getAssets resolved: lines 102-114, up to the await of saveAssets.
GetAssetsResolves(p) ==
    /\ pc[p] = "awaitGetAssets"
    /\ \E assets \in AssetLists :
        /\ outputAssets' = [outputAssets EXCEPT ![p] = assets]
        /\ trace' = [trace EXCEPT ![p] =
                        @ \o <<Ev("server.getAssets returned", assets),
                               Ev("saveAssets", SaveAssetsArgs(args[p], assets))>>]
    /\ pc' = [pc EXCEPT ![p] = "awaitSaveAssets"]
    /\ UNCHANGED <<args, requestOpts, server, bundle, outcome, mode, sessions,
                   dirs, files>>

\* server.getAssets rejected.
GetAssetsRejects(p) ==
    /\ pc[p] = "awaitGetAssets"
    /\ Finally(p, Throw(GetAssetsError),
               trace[p] \o <<Raised("server.getAssets", GetAssetsError)>>)
    /\ UNCHANGED <<args, requestOpts, server, bundle, outputAssets, mode, dirs>>

\* saveAssets resolved: line 109 returns its value, then the finally block.
SaveAssetsResolves(p) ==
    /\ pc[p] = "awaitSaveAssets"
    /\ \E r \in SaveAssetsResults :
        Finally(p, Return(r), trace[p] \o <<Ev("saveAssets returned", r)>>)
    /\ UNCHANGED <<args, requestOpts, server, bundle, outputAssets, mode, dirs>>

\* saveAssets rejected.
SaveAssetsRejects(p) ==
    /\ pc[p] = "awaitSaveAssets"
    /\ Finally(p, Throw(SaveAssetsError),
               trace[p] \o <<Raised("saveAssets", SaveAssetsError)>>)
    /\ UNCHANGED <<args, requestOpts, server, bundle, outputAssets, mode, dirs>>

Resume(p) ==
    \/ BuildResolves(p)
    \/ BuildRejects(p)
    \/ SaveResolves(p)
    \/ SaveRejects(p)
    \/ GetAssetsResolves(p)
    \/ GetAssetsRejects(p)
    \/ SaveAssetsResolves(p)
    \/ SaveAssetsRejects(p)

\* One invocation in the process, any arguments.
Next ==
    \/ \E a \in CommandArgs : Call(1, a)
    \/ Resume(1)

Spec == Init /\ [][Next]_vars

\* One invocation whose awaited promises (lines 93, 99, 102 and 109) each
\* eventually resolve or reject.
SpecLive == Spec /\ WF_vars(Resume(1))

\* Several invocations over the same resolved config, interleaved at awaits.
NextConcurrent ==
    \E p \in Invocations :
        \/ \E a \in ConcurrentArgs : Call(p, a)
        \/ Resume(p)

SpecConcurrent == Init /\ [][NextConcurrent]_vars

----------------------------------------------------------------------------
(* Reading the trace of an invocation *)

Idx(p, op) == {i \in 1..Len(trace[p]) : trace[p][i].op = op}
Count(p, op) == Cardinality(Idx(p, op))
Called(p) == pc[p] # "idle"
Settled(p) == outcome[p][1] \in {"fulfilled", "rejected"}
Opened(p) == Idx(p, "new Server") # {}
SessionsOf(p) == {i \in 1..Len(sessions) : sessions[i].openedBy = p}
ThrowsBy(p, bys) == {i \in Idx(p, "throw") : trace[p][i].data.by \in bys}
Supported(platform) == \E i \in 1..Len(ConfigPlatforms) : ConfigPlatforms[i] = platform

PipelineSteps ==
    {"output.build", "fs.mkdirSync", "output.save", "server.getAssets", "saveAssets"}

EndBeforeSettle(p) ==
    \A i \in Idx(p, "server.end") : \A j \in Idx(p, "settle") : i < j

----------------------------------------------------------------------------
(* Claims *)

\* C1: once the session is opened, server.end is invoked exactly once by the
\* time the result or error reaches the caller, whichever later step failed
\* or none, and never more than once; the call precedes the settlement.
C1_EndExactlyOnce ==
    \A p \in Invocations :
        Opened(p) =>
            /\ Count(p, "server.end") <= 1
            /\ \A s \in SessionsOf(p) : sessions[s].endCalls = Count(p, "server.end")
            /\ Settled(p) => Count(p, "server.end") = 1 /\ EndBeforeSettle(p)

\* C1 witness: a run whose output.save failed after the session was opened
\* has settled.
C1_Witness ==
    \E p \in Invocations :
        Opened(p) /\ Settled(p) /\ ThrowsBy(p, {"output.save"}) # {}

\* C2: an unsupported platform fails with 'Bundling failed'; no session is
\* opened and none of the pipeline steps nor server.end is invoked.
C2_InvalidPlatformShortCircuits ==
    \A p \in Invocations :
        (Called(p) /\ ~Supported(args[p].platform)) =>
            /\ outcome[p] = Rejected(Error("Bundling failed"))
            /\ server[p] = 0
            /\ SessionsOf(p) = {}
            /\ \A op \in PipelineSteps \cup {"new Server", "server.end"} :
                    Count(p, op) = 0

\* C2 witness: platform "windows" was requested and the call has failed.
C2_Witness ==
    \E p \in Invocations :
        Called(p) /\ args[p].platform = "windows" /\ outcome[p][1] = "rejected"

\* The exit paths the claim C3 lists: successful return, failure of a
\* pipeline step, platform-validation failure.
ListedExit(p) ==
    /\ Settled(p)
    /\ ThrowsBy(p, {"new Server"}) = {}

\* C3 as stated: one session created and one destroyed on every listed exit
\* path, platform-validation failure included.
C3_Original ==
    \A p \in Invocations :
        ListedExit(p) =>
            Cardinality(SessionsOf(p)) = 1 /\ Count(p, "server.end") = 1

\* C3 amended: on every exit path after the session was constructed exactly
\* one session was created and server.end was invoked exactly once on it; on
\* platform-validation failure, and when the constructor itself raises, none
\* is created and none destroyed.
C3_Amended ==
    \A p \in Invocations :
        Settled(p) =>
            IF Supported(args[p].platform) /\ ThrowsBy(p, {"new Server"}) = {}
            THEN /\ Cardinality(SessionsOf(p)) = 1
                 /\ Count(p, "server.end") = 1
                 /\ \A s \in SessionsOf(p) : sessions[s].endCalls = 1
            ELSE /\ SessionsOf(p) = {}
                 /\ Count(p, "server.end") = 0

\* C3 witness: a successful run has returned.
C3_Witness ==
    \E p \in Invocations : outcome[p][1] = "fulfilled" /\ SessionsOf(p) # {}

\* The calls of one invocation and their completions, in program order.
StepOrder ==
    <<"validate", "process.env.NODE_ENV", "new Server",
      "output.build", "output.build returned",
      "fs.mkdirSync", "fs.mkdirSync returned",
      "output.save", "output.save returned",
      "server.getAssets", "server.getAssets returned",
      "saveAssets", "saveAssets returned",
      "server.end">>

IsStep(e) == \E i \in 1..Len(StepOrder) : StepOrder[i] = e.op
StepEvents(p) == SelectSeq(trace[p], IsStep)

\* C4: the steps of an invocation occur in program order, each after the
\* previous one completed, server.end last; a run that returns has gone
\* through all of them; and the parent directory of bundleOutput exists once
\* output.save has been started.
C4_StepOrder ==
    \A p \in Invocations :
        LET ev == StepEvents(p)
        IN  /\ \A i \in 1..Len(ev) :
                    \/ ev[i].op = StepOrder[i]
                    \/ ev[i].op = "server.end" /\ i = Len(ev) /\ i > 3
            /\ outcome[p][1] = "fulfilled" => Len(ev) = Len(StepOrder)
            /\ Idx(p, "output.save") # {} => Dirname(args[p].bundleOutput) \in dirs

\* C4 witness: a run with bundleOutput "m/m", whose directory "m" did not
\* exist at the start, has returned.
C4_Witness ==
    \E p \in Invocations :
        outcome[p][1] = "fulfilled" /\ args[p].bundleOutput = <<"m", "/", "m">>

\* C5 as stated: the error a pipeline step raised is the error the caller
\* observes, after server.end.
C5_Original ==
    \A p \in Invocations :
        Settled(p) =>
            \A i \in ThrowsBy(p, PipelineSteps) :
                /\ outcome[p] = Rejected(trace[p][i].data.error)
                /\ Count(p, "server.end") = 1
                /\ EndBeforeSettle(p)

\* C5 amended: the error a pipeline step raised reaches the caller
\* unchanged, after server.end was invoked, unless server.end itself
\* raises; then the caller observes the error of server.end instead.
C5_Amended ==
    \A p \in Invocations :
        Settled(p) =>
            \A i \in ThrowsBy(p, PipelineSteps) :
                /\ Count(p, "server.end") = 1
                /\ EndBeforeSettle(p)
                /\ IF ThrowsBy(p, {"server.end"}) = {}
                   THEN outcome[p] = Rejected(trace[p][i].data.error)
                   ELSE \A j \in ThrowsBy(p, {"server.end"}) :
                            outcome[p] = Rejected(trace[p][j].data.error)

\* C5 witness: directory creation failed, server.end succeeded, the caller
\* has the error.
C5_Witness ==
    \E p \in Invocations :
        /\ Settled(p)
        /\ ThrowsBy(p, {"fs.mkdirSync"}) # {}
        /\ ThrowsBy(p, {"server.end"}) = {}

\* C6: when no step raises, saveAssets was called once with the list
\* server.getAssets returned, args.platform, args.assetsDest and
\* args.assetCatalogDest, and the caller receives the value it returned.
C6_ReturnsSaveAssetsResult ==
    \A p \in Invocations :
        (Settled(p) /\ Idx(p, "throw") = {}) =>
            /\ Count(p, "saveAssets") = 1
            /\ Count(p, "server.getAssets returned") = 1
            /\ Count(p, "saveAssets returned") = 1
            /\ LET call == trace[p][CHOOSE i \in Idx(p, "saveAssets") : TRUE]
                   got == trace[p][CHOOSE i \in Idx(p, "server.getAssets returned") : TRUE]
                   ret == trace[p][CHOOSE i \in Idx(p, "saveAssets returned") : TRUE]
               IN  /\ call.data = <<got.data, args[p].platform, args[p].assetsDest,
                                    args[p].assetCatalogDest>>
                   /\ outcome[p] = Fulfilled(ret.data)

\* C6 witness: a run over a non-empty asset list returned "saved".
C6_Witness ==
    \E p \in Invocations :
        /\ outcome[p] = Fulfilled(Str("saved"))
        /\ outputAssets[p] = <<"asset1">>

ExpectedMode(p) ==
    IF args[p].dev THEN Str("development") ELSE Str("production")

\* C7: an invocation that passed validation wrote process.env.NODE_ENV
\* exactly once, 'development' for dev and 'production' otherwise, before
\* constructing the session; while no other invocation has run, the mode
\* keeps that value, also after the invocation ended either way.
C7_ModeSetOnce ==
    \A p \in Invocations :
        (Called(p) /\ Supported(args[p].platform)) =>
            /\ Count(p, "process.env.NODE_ENV") = 1
            /\ \A i \in Idx(p, "process.env.NODE_ENV") :
                    /\ trace[p][i].data = ExpectedMode(p)
                    /\ \A j \in Idx(p, "new Server") : i < j
            /\ (\A q \in Invocations \ {p} : ~Called(q)) => mode = ExpectedMode(p)

\* C7 witness: a dev run started from mode "test" has ended with a failed
\* output.save.
C7_Witness ==
    \E p \in Invocations :
        /\ Settled(p)
        /\ args[p].dev
        /\ ThrowsBy(p, {"output.save"}) # {}
        /\ mode = Str("development")

\* The RequestOptions output.build was called with.
BuildOpts(p) == trace[p][CHOOSE i \in Idx(p, "output.build") : TRUE].data[2]

\* C8: the RequestOptions passed to output.build have minify equal to
\* args.minify when it is defined and to the negation of args.dev otherwise.
C8_Minify ==
    \A p \in Invocations :
        Idx(p, "output.build") # {} =>
            BuildOpts(p).minify =
                (IF args[p].minify = Undefined THEN ~args[p].dev
                 ELSE args[p].minify[2])

\* C8 witness: output.build was called for dev = true with minify = true.
C8_Witness ==
    \E p \in Invocations :
        /\ Idx(p, "output.build") # {}
        /\ args[p].dev
        /\ args[p].minify = Bool(TRUE)

\* The last non-empty segment of a path, "" when it has none.
RECURSIVE TrailingName(_)
TrailingName(s) ==
    IF s = <<>> \/ s[Len(s)] = "/" THEN <<>>
    ELSE Append(TrailingName(SubSeq(s, 1, Len(s) - 1)), s[Len(s)])

RECURSIVE LastSegment(_)
LastSegment(s) ==
    IF s = <<>> THEN <<>>
    ELSE IF s[Len(s)] = "/" THEN LastSegment(SubSeq(s, 1, Len(s) - 1))
    ELSE TrailingName(s)

\* C9: RequestOptions.sourceMapUrl is undefined when args.sourcemapOutput is
\* not given; otherwise args.sourcemapOutput unchanged when
\* sourcemapUseAbsolutePath is true and its last path segment when false.
C9_SourceMapUrl ==
    \A p \in Invocations :
        Idx(p, "output.build") # {} =>
            BuildOpts(p).sourceMapUrl =
                (IF args[p].sourcemapOutput = Undefined THEN Undefined
                 ELSE IF args[p].sourcemapUseAbsolutePath THEN args[p].sourcemapOutput
                 ELSE Str(LastSegment(args[p].sourcemapOutput[2])))

\* C9 witness: output.build was called for sourcemapOutput "/m/" without
\* the absolute-path flag.
C9_Witness ==
    \E p \in Invocations :
        /\ Idx(p, "output.build") # {}
        /\ args[p].sourcemapOutput = Str(<<"/", "m", "/">>)
        /\ ~args[p].sourcemapUseAbsolutePath

\* The options server.getAssets was called with.
AssetOpts(p) == trace[p][CHOOSE i \in Idx(p, "server.getAssets") : TRUE].data[2]

\* C10: the options passed to server.getAssets carry the RequestOptions
\* value in every RequestOptions field, the fixed bundleType, and the engine
\* default in every other field.
C10_MergedOptions ==
    \A p \in Invocations :
        Idx(p, "server.getAssets") # {} =>
            LET m == AssetOpts(p)
                ro == BuildOpts(p)
            IN  /\ DOMAIN m = DOMAIN DEFAULT_BUNDLE_OPTIONS \cup DOMAIN ro \cup {"bundleType"}
                /\ \A k \in DOMAIN ro : m[k] = ro[k]
                /\ m.bundleType = "todo"
                /\ \A k \in DOMAIN DEFAULT_BUNDLE_OPTIONS \ (DOMAIN ro \cup {"bundleType"}) :
                        m[k] = DEFAULT_BUNDLE_OPTIONS[k]

\* C10 witness: server.getAssets was called for a production run without a
\* source map, where dev and sourceMapUrl differ from the engine defaults.
C10_Witness ==
    \E p \in Invocations :
        /\ Idx(p, "server.getAssets") # {}
        /\ ~args[p].dev
        /\ args[p].sourcemapOutput = Undefined

\* The parts of a diagnostic that are platform names.
IsPlatformName(x) == x \in RequestedPlatforms \ {""}
NamesIn(msg) == SelectSeq(msg, IsPlatformName)

\* Both diagnostics were emitted, error first, before the error was raised,
\* and the info diagnostic lists the supported platforms in order.
DiagnosticsThenThrow(p) ==
    /\ Count(p, "logger.error") = 1
    /\ Count(p, "logger.info") = 1
    /\ outcome[p] = Rejected(Error("Bundling failed"))
    /\ \A i \in Idx(p, "logger.error") : \A j \in Idx(p, "logger.info") :
            /\ i < j
            /\ \A k \in Idx(p, "throw") : j < k
            /\ NamesIn(trace[p][j].data) = ConfigPlatforms

\* C11 as stated: for every unsupported platform, the empty string
\* included, the error diagnostic includes the platform name.
C11_Original ==
    \A p \in Invocations :
        (Called(p) /\ ~Supported(args[p].platform)) =>
            /\ DiagnosticsThenThrow(p)
            /\ \A i \in Idx(p, "logger.error") :
                    \E n \in 1..Len(trace[p][i].data) :
                        trace[p][i].data[n] = args[p].platform

\* C11 amended: for every unsupported platform both diagnostics are emitted
\* in that order before the error is raised and the info diagnostic lists
\* the supported platforms in order; the error diagnostic includes the
\* quoted platform name when the name is not empty, and names no platform
\* ("Invalid platform selected.") when it is the empty string.
C11_Amended ==
    \A p \in Invocations :
        (Called(p) /\ ~Supported(args[p].platform)) =>
            /\ DiagnosticsThenThrow(p)
            /\ \A i \in Idx(p, "logger.error") :
                    IF args[p].platform # ""
                    THEN NamesIn(trace[p][i].data) = <<args[p].platform>>
                    ELSE trace[p][i].data = <<"Invalid platform ", "selected.">>

\* C11 witness: the empty platform was requested and the diagnostics were
\* emitted.
C11_Witness ==
    \E p \in Invocations :
        Called(p) /\ args[p].platform = "" /\ Count(p, "logger.error") = 1

\* Invocation p executes lines 55-93 in this step and passes validation.
SetsMode(p) ==
    /\ pc[p] = "idle"
    /\ pc'[p] # "idle"
    /\ Supported(args'[p].platform)

\* C12: the mode is not locked and the last writer wins: every invocation
\* that passes validation overwrites the mode with the value of its own
\* dev, whatever the other invocations are doing, and no other step of any
\* invocation (in particular none that finishes one) changes the mode.
C12_LastWriterWins ==
    [][/\ \A p \in Invocations :
            SetsMode(p) =>
                mode' = (IF args'[p].dev THEN Str("development") ELSE Str("production"))
       /\ (~\E p \in Invocations : SetsMode(p)) => mode' = mode]_vars

\* C12 witness: invocation 2 set the mode first, invocation 1 with the
\* other dev value set it last, both have finished, and the mode is that
\* of invocation 1.
C12_Witness ==
    /\ Settled(1) /\ Settled(2)
    /\ Len(sessions) >= 2
    /\ sessions[1].openedBy = 2
    /\ sessions[2].openedBy = 1
    /\ args[1].dev # args[2].dev
    /\ mode = ExpectedMode(1)

InFlight(p) ==
    pc[p] \in {"awaitBuild", "awaitSave", "awaitGetAssets", "awaitSaveAssets"}

\* C13: every invocation that constructs a session constructs one of its
\* own; the session it passes to output.build, asks for assets and closes
\* is that one; every session was closed only by the invocation that opened
\* it; and every session was constructed over the one shared config.
C13_SessionsNotShared ==
    /\ \A p \in Invocations :
        /\ Cardinality(SessionsOf(p)) = (IF Opened(p) THEN 1 ELSE 0)
        /\ server[p] # 0 => sessions[server[p]].openedBy = p
        /\ \A i \in Idx(p, "new Server") \cup Idx(p, "server.end") :
                sessions[trace[p][i].data].openedBy = p
        /\ \A i \in Idx(p, "output.build") \cup Idx(p, "server.getAssets") :
                sessions[trace[p][i].data[1]].openedBy = p
    /\ \A s \in 1..Len(sessions) :
        /\ sessions[s].endCalls = Count(sessions[s].openedBy, "server.end")
        /\ sessions[s].config = ConfigPlatforms

\* C13 witness: two invocations are in flight at once, each on its own
\* session.
C13_Witness ==
    /\ pc[1] = "awaitGetAssets"
    /\ pc[2] = "awaitSave"
    /\ server[1] # server[2]

\* C14: nothing written is removed on failure: when server.getAssets or
\* saveAssets failed, the bundle file output.save wrote and its directory
\* are present when the error has reached the caller; when output.save
\* failed, the directory created for it is present.
C14_NoCleanup ==
    \A p \in Invocations :
        Settled(p) =>
            /\ ThrowsBy(p, {"server.getAssets", "saveAssets"}) # {} =>
                    /\ args[p].bundleOutput \in files
                    /\ WithAncestors(Dirname(args[p].bundleOutput)) \subseteq dirs
            /\ ThrowsBy(p, {"output.save"}) # {} =>
                    WithAncestors(Dirname(args[p].bundleOutput)) \subseteq dirs

\* C14 witness: saveAssets failed for bundleOutput "m/m" and the caller has
\* the error.
C14_Witness ==
    \E p \in Invocations :
        /\ Settled(p)
        /\ ThrowsBy(p, {"saveAssets"}) # {}
        /\ args[p].bundleOutput = <<"m", "/", "m">>

\* The events that may follow a failed pipeline step: the session close, its
\* own failure, and the settlement of the caller's promise.
IsClosing(e) ==
    \/ e.op \in {"server.end", "settle"}
    \/ e.op = "throw" /\ e.data.by = "server.end"

\* C15: the pipeline is single-attempt. Once output.build, fs.mkdirSync,
\* output.save, server.getAssets or saveAssets has failed, no pipeline step
\* is invoked after the failure and each step was invoked at most once; what
\* follows is the session close alone. A failed output.build leaves the
\* filesystem as it was, and after a failed output.save neither
\* server.getAssets nor saveAssets is called.
C15_SingleAttempt ==
    \A p \in Invocations :
        /\ \A op \in PipelineSteps : Count(p, op) <= 1
        /\ \A i \in ThrowsBy(p, PipelineSteps) :
            /\ \A j \in (i + 1)..Len(trace[p]) : IsClosing(trace[p][j])
            /\ Settled(p) => \E j \in Idx(p, "server.end") : j > i
        /\ ThrowsBy(p, {"output.build"}) # {} =>
            /\ Count(p, "fs.mkdirSync") = 0
            /\ Count(p, "output.save") = 0
            /\ dirs = {<<"/">>, <<".">>}
            /\ files = {}
        /\ ThrowsBy(p, {"output.save"}) # {} =>
            /\ Count(p, "server.getAssets") = 0
            /\ Count(p, "saveAssets") = 0

\* C15 witness: output.save failed after the directory was made, and the
\* caller has the error.
C15_Witness ==
    \E p \in Invocations :
        /\ Settled(p)
        /\ ThrowsBy(p, {"output.save"}) # {}
        /\ Count(p, "fs.mkdirSync returned") = 1

\* C16: the mode is not protected from a second invocation. Whenever an
\* invocation is in flight (awaiting its build, save or asset step) and
\* another has not been called yet, the other can be called so that the mode
\* becomes a value that disagrees with the dev of the one in flight, which
\* stays in flight at the same step.
C16_ModeRace ==
    \A p \in Invocations : \A q \in Invocations \ {p} :
        (InFlight(p) /\ pc[q] = "idle") =>
            ENABLED (\E a \in ConcurrentArgs :
                        /\ Call(q, a)
                        /\ a.dev # args[p].dev
                        /\ mode' # ExpectedMode(p)
                        /\ pc'[p] = pc[p])

\* C16 witness: an invocation is in flight while the mode holds the value
\* written by another invocation with the opposite dev.
C16_Witness ==
    \E p \in Invocations : \E q \in Invocations \ {p} :
        /\ InFlight(p)
        /\ Idx(q, "process.env.NODE_ENV") # {}
        /\ args[q].dev # args[p].dev
        /\ mode = ExpectedMode(q)
        /\ mode # ExpectedMode(p)

\* C17: provided every awaited collaborator call eventually returns or
\* fails, an invocation that was called eventually delivers a result or an
\* error to its caller, and a session that was opened is eventually closed.
C17_Terminates ==
    \A p \in Invocations :
        /\ Called(p) ~> Settled(p)
        /\ Opened(p) ~> (\A s \in SessionsOf(p) : sessions[s].endCalls >= 1)

\* C17 witness: server.getAssets failed, the session has been closed and the
\* caller has the outcome.
C17_Witness ==
    \E p \in Invocations :
        /\ Settled(p)
        /\ ThrowsBy(p, {"server.getAssets"}) # {}
        /\ \A s \in SessionsOf(p) : sessions[s].endCalls >= 1

\* The asynchronous steps of the pipeline and the event that records the
\* fulfilment of each.
AsyncSteps == {"output.build", "output.save", "server.getAssets", "saveAssets"}

ReturnEvent(op) ==
    CASE op = "output.build" -> "output.build returned"
      [] op = "output.save" -> "output.save returned"
      [] op = "server.getAssets" -> "server.getAssets returned"
      [] op = "saveAssets" -> "saveAssets returned"

\* The step called at position i of the trace has completed before position e.
CompletedBetween(p, op, i, e) ==
    \E c \in (i + 1)..(e - 1) :
        \/ trace[p][c].op = ReturnEvent(op)
        \/ trace[p][c].op = "throw" /\ trace[p][c].data.by = op

\* C18: the session is not closed while a step of its invocation is in
\* flight, and is not used after it was closed: while the invocation awaits
\* a step server.end has not been called on its session; every call of
\* output.build, output.save, server.getAssets and saveAssets precedes
\* server.end and has completed before it; on the success path saveAssets
\* has returned before server.end.
C18_NoUseAfterClose ==
    \A p \in Invocations :
        /\ InFlight(p) =>
            /\ Count(p, "server.end") = 0
            /\ sessions[server[p]].endCalls = 0
        /\ \A e \in Idx(p, "server.end") : \A op \in AsyncSteps :
            \A i \in Idx(p, op) : i < e /\ CompletedBetween(p, op, i, e)
        /\ (Settled(p) /\ outcome[p][1] = "fulfilled") =>
            \E r \in Idx(p, "saveAssets returned") :
                \A e \in Idx(p, "server.end") : r < e

\* C18 witness: saveAssets has returned and the session was closed after it.
C18_Witness ==
    \E p \in Invocations :
        \E r \in Idx(p, "saveAssets returned") : \E e \in Idx(p, "server.end") :
            r < e /\ sessions[server[p]].endCalls = 1

\* C19: a call whose platform fails validation leaves process.env.NODE_ENV
\* as it was before the call, whatever args.dev is.
C19_RejectKeepsMode ==
    [][\A p \in Invocations :
          (pc[p] = "idle" /\ pc'[p] # "idle" /\ ~Supported(args'[p].platform))
              => mode' = mode]_vars

\* C19 witness: a call with dev set and an unsupported platform has failed
\* and the mode still holds its value from before the call.
C19_Witness ==
    \E p \in Invocations :
        /\ ThrowsBy(p, {"validate"}) # {}
        /\ args[p].dev
        /\ mode = Str("test")

\* C20: when server.end itself raises, the caller observes the error of
\* server.end: not the value saveAssets returned on a run whose steps all
\* succeeded, and not the error of the step that had failed before.
C20_EndErrorWins ==
    \A p \in Invocations :
        Settled(p) =>
            \A j \in ThrowsBy(p, {"server.end"}) :
                /\ outcome[p] = Rejected(trace[p][j].data.error)
                /\ trace[p][j].data.error = EndError
                /\ \A i \in ThrowsBy(p, PipelineSteps) :
                        outcome[p] # Rejected(trace[p][i].data.error)
                /\ \A r \in Idx(p, "saveAssets returned") :
                        outcome[p] # Fulfilled(trace[p][r].data)

\* C20 witness: output.save failed, then server.end failed, and the caller
\* has the error of server.end.
C20_Witness ==
    \E p \in Invocations :
        /\ ThrowsBy(p, {"output.save"}) # {}
        /\ ThrowsBy(p, {"server.end"}) # {}
        /\ outcome[p] = Rejected(EndError)

====
